---- MODULE Spec2Model ----
(***************************************************************************)
(* A model of @bhsd/test-util: the regression-test reconciler (mochaTest)  *)
(* and its tokenizer (split) of src/index.ts, and the streaming reporter   *)
(* of src/reporter.ts.                                                     *)
(*                                                                         *)
(* A JavaScript string is a sequence of one-character strings, so that the *)
(* tokenizer's regular expression is computed position by position.        *)
(***************************************************************************)
EXTENDS Integers, Sequences, FiniteSets, TLC

VARIABLES
    fnPc,       \* position of the pure-function harness: "in" | "out"
    fnIn,       \* the parsed strings handed to split
    fnOut,      \* the token sequences split returned for them
    pc,         \* mocha's position: "load", "before", "its", "done", or "off"
    heap,       \* the Test objects: reference -> fields
    tests,      \* the module-level array `tests`: a sequence of references
    results,    \* the `results` argument of mochaTest
    parseLog,   \* the `parse` argument, as far as it was called: wikitext -> outcome
    its,        \* the closures registered with it(), in registration order
    next,       \* index in `its` of the next case mocha runs
    file,       \* test/parserTests.json as written by this process, or None
    writes,     \* number of writeFileSync calls of this process
    report,     \* what the host runner saw of each case it ran, in both runs
    loaded,     \* the corpus as this process loaded it (history)
    run,        \* 1: the first process, 2: the process started on its output
    gen,        \* the reporter generator: "created", "awaiting", "suspended", "done", "off"
    output,     \* reporter: the failure-detail text accumulated so far
    cur,        \* reporter: the name of the current top-level test
    pass,       \* reporter: the counter `pass`
    fail,       \* reporter: the counter `fail`
    consumed,   \* the events the for-await loop has taken from the source
    requests,   \* number of events the loop has asked the source for
    fragments,  \* the fragments yielded, each with the counts at its yield
    cont,       \* the module-level continuation token `c`, or None
    epc,        \* execute's position: "site", "fetch", "await", "pages", "done", "off"
    siteIx,     \* index in `apis` of the site of the current for-of round
    retry,      \* the `retry` argument
    attempt,    \* the loop counter `j`
    failed,     \* the counter `failed` of the current site
    worst,      \* the slowest page of the current site so far, or None
    failures,   \* the Map `failures`, in insertion order
    batch,      \* the pages getPages returned that are still to be parsed
    inflight,   \* number of fetch requests without a response yet
    sent,       \* the latest request: its site and the token merged into it
    lastContinue, \* the `continue` of the latest response of the current site (history)
    visited,    \* for each site, the token at its first getPages call (history)
    caught,     \* what the outer catch caught last, or "none" (history)
    threw,      \* number of parse calls that threw so far (history)
    raised,     \* the total in the error execute threw, or None
    identity    \* whether `git config user.email` succeeds in this process

fnVars == <<fnPc, fnIn, fnOut>>
mochaVars == <<pc, heap, tests, results, parseLog, its, next, file, writes,
               report, loaded, run>>
repVars == <<gen, output, cur, pass, fail, consumed, requests, fragments>>
execVars == <<cont, epc, siteIx, retry, attempt, failed, worst, failures, batch,
              inflight, sent, lastContinue, visited, caught, threw, raised,
              identity>>
vars == <<fnVars, mochaVars, repVars, execVars>>

(***************************************************************************)
(* Bounds.                                                                 *)
(***************************************************************************)
MaxLen == 5
MaxCmpLen == 3
MaxCases == 2
MaxEvents == 3
MaxRaw == 2
MaxRetry == 2

(***************************************************************************)
(* Characters.  `\w` under the `u` flag (no `i`) is [A-Za-z0-9_]; "a" stands *)
(* for the letters and "1" for the digits and the underscore.              *)
(***************************************************************************)
Alphabet == {"<", "/", ">", "a", "1"}
(* The characters of the two strings of a comparison. *)
CmpAlphabet == {"<", "/", ">", "a"}
WordChars == {"a", "1"}

RECURSIVE StringsOfLen(_, _)
StringsOfLen(chars, n) ==
    IF n = 0 THEN {<<>>}
    ELSE {Append(s, c) : s \in StringsOfLen(chars, n - 1), c \in chars}

StringsUpTo(chars, n) == UNION {StringsOfLen(chars, k) : k \in 0..n}

(***************************************************************************)
(* The regular expression of split, /(?<=<\/>)(?!$)|(?<!^)(?=<\w)/u, tried  *)
(* at offset q (0 = before the first character, Len(s) = the end).  Every  *)
(* match is empty: both alternatives are made of assertions only.          *)
(***************************************************************************)
LookbehindMarker(s, q) ==
    q >= 3 /\ s[q - 2] = "<" /\ s[q - 1] = "/" /\ s[q] = ">"

AtEnd(s, q) == q = Len(s)

AtStart(s, q) == q = 0

(* Variant: only a letter opens a tag. *)
LookaheadLetter(s, q) ==
    q + 2 <= Len(s) /\ s[q + 1] = "<" /\ s[q + 2] \in {"a"}

LookaheadTag(s, q) ==
    q + 2 <= Len(s) /\ s[q + 1] = "<" /\ s[q + 2] \in WordChars

MatchesAt(s, q) ==
    \/ LookbehindMarker(s, q) /\ ~AtEnd(s, q)
    \/ ~AtStart(s, q) /\ LookaheadTag(s, q)

(***************************************************************************)
(* String.prototype.split with a regular expression (ECMAScript            *)
(* RegExp.prototype[@@split]): p is the start of the current token, q the  *)
(* offset the expression is tried at; a match ending at p is skipped, and  *)
(* the offset Len(s) is never tried.                                       *)
(***************************************************************************)
SubStr(s, from, to) == [k \in 1..(to - from) |-> s[from + k]]

RECURSIVE SplitLoop(_, _, _, _)
SplitLoop(s, p, q, acc) ==
    IF q >= Len(s) THEN Append(acc, SubStr(s, p, Len(s)))
    ELSE IF ~MatchesAt(s, q) THEN SplitLoop(s, p, q + 1, acc)
    ELSE IF q = p THEN SplitLoop(s, p, q + 1, acc)
    ELSE SplitLoop(s, q, q, Append(acc, SubStr(s, p, q)))

JsSplit(s) ==
    IF Len(s) = 0
    THEN IF MatchesAt(s, 0) THEN <<>> ELSE <<s>>
    ELSE SplitLoop(s, 0, 0, <<>>)

(***************************************************************************)
(* Optional values: None for undefined or a missing field, Some(v) else.   *)
(***************************************************************************)
None == <<>>
Some(v) == <<v>>
IsSome(o) == o # None
Get(o) == o[1]

(***************************************************************************)
(* split(test) = test?.parsed?.split(...): undefined when there is no test *)
(* or the test has no parsed field.                                        *)
(***************************************************************************)
split(test) ==
    IF ~IsSome(test) THEN None
    ELSE IF ~IsSome(Get(test).parsed) THEN None
    ELSE Some(JsSplit(Get(Get(test).parsed)))

(***************************************************************************)
(* The tokenizer on its own: Init draws a parsed string, Tokenize applies  *)
(* split to a test result that carries it.                                 *)
(***************************************************************************)
TestOf(s) == Some([desc |-> "d1", parsed |-> Some(s)])

ReporterOff ==
    /\ gen = "off"
    /\ output = <<>>
    /\ cur = ""
    /\ pass = 0
    /\ fail = 0
    /\ consumed = <<>>
    /\ requests = 0
    /\ fragments = <<>>

MochaOff ==
    /\ pc = "off"
    /\ heap = <<>>
    /\ tests = <<>>
    /\ results = [isArray |-> FALSE, items |-> <<>>]
    /\ parseLog = {}
    /\ its = <<>>
    /\ next = 1
    /\ file = None
    /\ writes = 0
    /\ report = <<>>
    /\ loaded = <<>>
    /\ run = 1

NoRequest == [site |-> 0, token |-> <<>>]

ExecOff ==
    /\ cont = <<>>
    /\ epc = "off"
    /\ siteIx = 1
    /\ retry = 0
    /\ attempt = 0
    /\ failed = 0
    /\ worst = <<>>
    /\ failures = <<>>
    /\ batch = <<>>
    /\ inflight = 0
    /\ sent = NoRequest
    /\ lastContinue = <<>>
    /\ visited = <<>>
    /\ caught = "none"
    /\ threw = 0
    /\ raised = <<>>
    /\ identity = TRUE

SplitInit ==
    /\ ExecOff
    /\ MochaOff
    /\ ReporterOff
    /\ fnPc = "in"
    /\ fnIn \in {<<s>> : s \in StringsUpTo(Alphabet, MaxLen)}
    /\ fnOut = <<>>

Tokenize ==
    /\ fnPc = "in"
    /\ fnPc' = "out"
    /\ fnOut' = [k \in 1..Len(fnIn) |-> split(TestOf(fnIn[k]))]
    /\ UNCHANGED <<fnIn, mochaVars, repVars, execVars>>

SplitNext == Tokenize

SpecSplit == SplitInit /\ [][SplitNext]_vars

(* Variant: only the lengths of the two arrays are compared. *)
SameLength(actual, expected) == Len(actual) = Len(expected)

(***************************************************************************)
(* assert.deepStrictEqual on two split results: arrays of strings are      *)
(* equal when they have the same length and the same strings in order;     *)
(* undefined equals only undefined.                                        *)
(***************************************************************************)
DeepStrictEqual(actual, expected) == actual = expected

(***************************************************************************)
(* The comparison on its own: Init draws two parsed strings, Tokenize      *)
(* splits both, as lines 159-162 do with the fresh and the stored result.  *)
(***************************************************************************)
CompareInit ==
    /\ ExecOff
    /\ MochaOff
    /\ ReporterOff
    /\ fnPc = "in"
    /\ fnIn \in {<<s, t>> : s \in StringsUpTo(CmpAlphabet, MaxCmpLen),
                            t \in StringsUpTo(CmpAlphabet, MaxCmpLen)}
    /\ fnOut = <<>>

SpecCompare == CompareInit /\ [][SplitNext]_vars

(***************************************************************************)
(* The regression-test reconciler, mochaTest.                              *)
(*                                                                         *)
(* A Test object lives in `heap` under its reference; `tests` holds the    *)
(* references in array order, so that a closure's captured `test` and the  *)
(* array element `tests[i]` are told apart.  A field that is missing or    *)
(* undefined is None.                                                      *)
(***************************************************************************)
Descs == {"d1", "d2"}
Wikitexts == {"w1", "w2"}
ParsedOutputs == {<<"a">>, <<"a", "<", "a">>}

FieldChoices ==
    {[parsed |-> None, stale |-> None],
     [parsed |-> Some(<<"a">>), stale |-> Some("old")]}

CaseChoices ==
    {[desc |-> d, wikitext |-> w, parsed |-> f.parsed, title |-> f.stale,
      html |-> f.stale, print |-> f.stale, render |-> f.stale] :
        d \in Descs,
        w \in {None, Some("")} \cup {Some(x) : x \in Wikitexts},
        f \in FieldChoices}

RECURSIVE SeqsOfLen(_, _)
SeqsOfLen(S, n) ==
    IF n = 0 THEN {<<>>}
    ELSE {Append(q, x) : q \in SeqsOfLen(S, n - 1), x \in S}

Corpora == UNION {SeqsOfLen(CaseChoices, n) : n \in 0..MaxCases}

(***************************************************************************)
(* The `results` argument is typed unknown and cast to TestResult[]: it is *)
(* an array of at most one stored result here, or no array at all.         *)
(***************************************************************************)
TestResult(t) == [desc |-> t.desc, wikitext |-> t.wikitext, parsed |-> t.parsed]

ResultChoices ==
    {[desc |-> d, wikitext |-> Some("w1"), parsed |-> e] :
        d \in Descs, e \in {None} \cup {Some(x) : x \in ParsedOutputs}}

ResultsChoices ==
    {[isArray |-> FALSE, items |-> <<>>]}
    \cup {[isArray |-> TRUE, items |-> q] :
            q \in SeqsOfLen(ResultChoices, 0) \cup SeqsOfLen(ResultChoices, 1)}

(***************************************************************************)
(* The `parse` argument: a call returns a string or throws an Error, an    *)
(* assert.AssertionError (a parser may use assert itself) or a value that  *)
(* is no Error.  The parser is deterministic: a wikitext it was called on  *)
(* keeps its outcome (parseLog).                                           *)
(***************************************************************************)
Outcomes ==
    {[kind |-> "return", value |-> v] : v \in ParsedOutputs}
    \cup {[kind |-> k, value |-> <<>>] : k \in {"Error", "AssertionError", "nonError"}}

parse(wikitext) ==
    IF \E e \in parseLog : e.wikitext = wikitext
    THEN {e.outcome : e \in {x \in parseLog : x.wikitext = wikitext}}
    ELSE Outcomes

(* Variant: any string counts, the empty one too. *)
TruthyPresent(w) == IsSome(w)

Truthy(w) == IsSome(w) /\ Get(w) # ""

IsAssertionError(kind) == kind = "AssertionError"

IsError(kind) == kind \in {"Error", "AssertionError"}

(* Variant: splice(i), which removes everything from i on. *)
SpliceToEnd(arr, i) == SubSeq(arr, 1, i)

(***************************************************************************)
(* Array.prototype.splice(i, 1) with a 0-based i: nothing is removed when  *)
(* i is past the end.                                                      *)
(***************************************************************************)
Splice(arr, i) ==
    IF i < Len(arr)
    THEN SubSeq(arr, 1, i) \o SubSeq(arr, i + 2, Len(arr))
    ELSE arr

(***************************************************************************)
(* Array.prototype.find(({desc: d}) => d === desc): the first match.       *)
(***************************************************************************)
Find(items, desc) ==
    LET hits == {k \in 1..Len(items) : items[k].desc = desc}
    IN  IF hits = {} THEN None
        ELSE Some(items[CHOOSE k \in hits : \A j \in hits : k <= j])

(* Variant: the title is not deleted. *)
ScrubKeepTitle(h, t) ==
    [h EXCEPT ![t].html = None, ![t].print = None, ![t].render = None]

(***************************************************************************)
(* Lines 154-157: the four deletes.                                        *)
(***************************************************************************)
Scrub(h, t) ==
    [h EXCEPT ![t].html = None, ![t].print = None,
              ![t].render = None, ![t].title = None]

(* Variant: parsed is stored only once the comparison has passed. *)
TryBlockStoreOnPass(c, o) ==
    LET h1 == Scrub(heap, c.test)
        h2 == [h1 EXCEPT ![c.test].parsed = Some(o.value)]
    IN  IF o.kind # "return"
        THEN [heap |-> h1, thrown |-> o.kind, at |-> "parse"]
        ELSE IF ~results.isArray
        THEN [heap |-> h1, thrown |-> "Error", at |-> "find"]
        ELSE IF DeepStrictEqual(split(Some(h2[c.test])),
                                split(Find(results.items, c.desc)))
        THEN [heap |-> h2, thrown |-> "none", at |-> "none"]
        ELSE [heap |-> h1, thrown |-> "AssertionError", at |-> "compare"]

(***************************************************************************)
(* Lines 153-162, the try block of the closure c under parser outcome o:   *)
(* the heap it leaves and what it threw ("none" when it completed).        *)
(***************************************************************************)
TryBlock(c, o) ==
    LET h1 == Scrub(heap, c.test)
        h2 == [h1 EXCEPT ![c.test].parsed = Some(o.value)]
    IN  IF o.kind # "return"
        THEN [heap |-> h1, thrown |-> o.kind, at |-> "parse"]
        ELSE IF ~results.isArray
        THEN [heap |-> h2, thrown |-> "Error", at |-> "find"]
        ELSE IF DeepStrictEqual(split(Some(h2[c.test])),
                                split(Find(results.items, c.desc)))
        THEN [heap |-> h2, thrown |-> "none", at |-> "none"]
        ELSE [heap |-> h2, thrown |-> "AssertionError", at |-> "compare"]

(***************************************************************************)
(* Lines 163-171, the catch block: the array after it and the cause it    *)
(* attached to what it re-throws.                                          *)
(***************************************************************************)
CatchTests(c, thrown) ==
    IF thrown # "none" /\ ~IsAssertionError(thrown)
    THEN Splice(tests, c.i)
    ELSE tests

CatchCause(c, thrown) ==
    IF thrown # "none" /\ IsError(thrown) THEN Some(c.wikitext) ELSE None

(* Variant: the loop runs from the first index to the last. *)
RECURSIVE RegisterAscending(_)
RegisterAscending(i) ==
    IF i < 0 THEN <<>>
    ELSE LET test == tests[i + 1]
             wikitext == heap[test].wikitext
         IN  RegisterAscending(i - 1)
             \o (IF Truthy(wikitext)
                 THEN <<[i |-> i, test |-> test, wikitext |-> Get(wikitext),
                         desc |-> heap[test].desc]>>
                 ELSE <<>>)

(* Variant: the closure captures a 1-based index. *)
RECURSIVE RegisterOneBased(_)
RegisterOneBased(i) ==
    IF i < 0 THEN <<>>
    ELSE LET test == tests[i + 1]
             wikitext == heap[test].wikitext
         IN  (IF Truthy(wikitext)
              THEN <<[i |-> i + 1, test |-> test, wikitext |-> Get(wikitext),
                      desc |-> heap[test].desc]>>
              ELSE <<>>)
             \o RegisterOneBased(i - 1)

(***************************************************************************)
(* Lines 148-174, the registration loop: from the last index to the first, *)
(* one closure per test whose wikitext is truthy.                          *)
(***************************************************************************)
RECURSIVE Register(_)
Register(i) ==
    IF i < 0 THEN <<>>
    ELSE LET test == tests[i + 1]
             wikitext == heap[test].wikitext
         IN  (IF Truthy(wikitext)
              THEN <<[i |-> i, test |-> test, wikitext |-> Get(wikitext),
                      desc |-> heap[test].desc]>>
              ELSE <<>>)
             \o Register(i - 1)

(* Variant: the objects are written as they were loaded. *)
SerializeLoaded == [k \in 1..Len(tests) |-> loaded[tests[k]]]

(***************************************************************************)
(* JSON.stringify(tests, null, '\t'): the objects in array order, each     *)
(* with the fields it has (an undefined field is left out); a reference is *)
(* not written.  Reading the file back makes fresh objects.                *)
(***************************************************************************)
Serialize == [k \in 1..Len(tests) |-> heap[tests[k]]]

MochaInit ==
    /\ ExecOff
    /\ ReporterOff
    /\ fnPc = "off"
    /\ fnIn = <<>>
    /\ fnOut = <<>>
    /\ pc = "load"
    /\ loaded \in Corpora
    /\ heap = loaded
    /\ tests = [k \in 1..Len(loaded) |-> k]
    /\ results = [isArray |-> FALSE, items |-> <<>>]
    /\ parseLog = {}
    /\ its = <<>>
    /\ next = 1
    /\ file = Some(loaded)
    /\ writes = 0
    /\ report = <<>>
    /\ run = 1

(***************************************************************************)
(* mochaTest(results, parse, beforeFn) and the describe callback.  The     *)
(* second process is given the persisted corpus as its results.            *)
(***************************************************************************)
ResultsArgs ==
    IF run = 1 THEN ResultsChoices
    ELSE {[isArray |-> TRUE,
           items |-> [k \in 1..Len(Get(file)) |-> TestResult(Get(file)[k])]]}

Describe ==
    /\ pc = "load"
    /\ \E r \in ResultsArgs, beforeFn \in BOOLEAN :
        /\ results' = r
        /\ pc' = IF beforeFn THEN "before" ELSE "its"
    /\ its' = Register(Len(tests) - 1)
    /\ next' = 1
    /\ UNCHANGED <<heap, tests, parseLog, file, writes, report, loaded, run,
                   fnVars, repVars, execVars>>

Before ==
    /\ pc = "before"
    /\ pc' = "its"
    /\ UNCHANGED <<heap, tests, results, parseLog, its, next, file, writes,
                   report, loaded, run, fnVars, repVars, execVars>>

It ==
    /\ pc = "its"
    /\ next <= Len(its)
    /\ LET c == its[next]
       IN  \E o \in parse(c.wikitext) :
            LET b == TryBlock(c, o)
            IN  /\ heap' = b.heap
                /\ tests' = CatchTests(c, b.thrown)
                /\ report' = Append(report,
                        [run |-> run, test |-> c.test, desc |-> c.desc,
                         wikitext |-> c.wikitext, outcome |-> o,
                         thrown |-> b.thrown, at |-> b.at,
                         cause |-> CatchCause(c, b.thrown)])
                /\ parseLog' = parseLog \cup {[wikitext |-> c.wikitext, outcome |-> o]}
    /\ next' = next + 1
    /\ UNCHANGED <<pc, results, its, file, writes, loaded, run, fnVars, repVars, execVars>>

(* Variant: the write is an afterEach hook. *)
AfterEach ==
    /\ pc = "its"
    /\ next > 1
    /\ writes < 2
    /\ file' = Some(Serialize)
    /\ writes' = writes + 1
    /\ pc' = IF next > Len(its) THEN "done" ELSE pc
    /\ UNCHANGED <<heap, tests, results, parseLog, its, next, report, loaded,
                   run, fnVars, repVars, execVars>>

After ==
    /\ pc = "its"
    /\ next > Len(its)
    /\ file' = Some(Serialize)
    /\ writes' = writes + 1
    /\ pc' = "done"
    /\ UNCHANGED <<heap, tests, results, parseLog, its, next, report, loaded,
                   run, fnVars, repVars, execVars>>

(***************************************************************************)
(* The process ends and a second one starts on the file the first wrote.   *)
(***************************************************************************)
Restart ==
    /\ pc = "done"
    /\ run = 1
    /\ run' = 2
    /\ pc' = "load"
    /\ loaded' = Get(file)
    /\ heap' = Get(file)
    /\ tests' = [k \in 1..Len(Get(file)) |-> k]
    /\ results' = [isArray |-> FALSE, items |-> <<>>]
    /\ its' = <<>>
    /\ next' = 1
    /\ writes' = 0
    /\ UNCHANGED <<parseLog, file, report, fnVars, repVars, execVars>>

Next == Describe \/ Before \/ It \/ After \/ Restart

Spec == MochaInit /\ [][Next]_vars

(***************************************************************************)
(* The reporter of src/reporter.ts, an async generator.                    *)
(*                                                                         *)
(* A text is a sequence of pieces (strings), '' is <<>> and + is \o.  A    *)
(* duration is counted in tenths of a millisecond, so that 37.5 and 12.7   *)
(* are integers: 375 and 127.                                              *)
(***************************************************************************)
ms == 75

getColoredStr(color, str) == <<"\\x1b[", color, "m">> \o str \o <<"\\x1b[0m">>

f == getColoredStr("31", <<"!">>)
slow == getColoredStr("93", <<".">>)
medium == getColoredStr("33", <<".">>)
fast == getColoredStr("90", <<".">>)

Nestings == {0, 1}
Names == {"A", "B"}
Durations == {375, 750, 751}

NoCounts == [passed |-> 0, failed |-> 0, skipped |-> 0]

Event(type, nesting, name, passed, duration, stack, counts, marker) ==
    [type |-> type, nesting |-> nesting, name |-> name, passed |-> passed,
     duration |-> duration, stack |-> stack, counts |-> counts, file |-> marker]

CompleteEvents ==
    {Event("test:complete", n, "A", p, d, "", NoCounts, None) :
        n \in Nestings, p \in BOOLEAN, d \in Durations}

StartEvents ==
    {Event("test:start", n, x, FALSE, 0, "", NoCounts, None) :
        n \in Nestings, x \in Names}

FailEvents ==
    {Event("test:fail", n, "A", FALSE, 0, "stack", NoCounts, None) :
        n \in Nestings}

SummaryEvents ==
    {Event("test:summary", 0, "", FALSE, 127,  "",
           [passed |-> 3, failed |-> x, skipped |-> y], marker) :
        x \in {0, 1}, y \in {0, 1}, marker \in {None, Some("a.test.js")}}

OtherEvents ==
    {Event("test:pass", 1, "A", TRUE, 375, "", NoCounts, None)}

Events ==
    CompleteEvents \cup StartEvents \cup FailEvents \cup SummaryEvents
    \cup OtherEvents

(***************************************************************************)
(* Number to text: String(n), its length, and Math.round of a duration.    *)
(***************************************************************************)
RECURSIVE DigitCount(_)
DigitCount(n) == IF n < 10 THEN 1 ELSE 1 + DigitCount(n \div 10)

Repeat(str, n) == [k \in 1..n |-> str]

(* Variant: Math.floor. *)
MathFloor(tenths) == tenths \div 10

MathRound(tenths) == (tenths + 5) \div 10

(***************************************************************************)
(* One pass of the loop body on an event: the fragment it yields (None     *)
(* when no yield is reached) and the variables after it.                   *)
(***************************************************************************)
Quiet(yielded) ==
    [yield |-> yielded, output |-> output, cur |-> cur, pass |-> pass,
     fail |-> fail]

OnComplete(data) ==
    LET symbol == IF ~data.passed THEN f
                  ELSE IF data.duration > ms * 10 THEN slow
                  ELSE IF data.duration * 2 > ms * 10 THEN medium
                  ELSE fast
    IN  IF data.nesting = 0
        THEN Quiet(Some(<<>>))
        ELSE [Quiet(Some((IF pass = 0 THEN <<"\n\n  ">> ELSE <<>>) \o symbol))
                EXCEPT !.pass = pass + 1]

(* Variant: the start case has no yield. *)
OnStartNoYield(data) ==
    IF data.nesting = 0
    THEN [Quiet(None) EXCEPT !.cur = data.name]
    ELSE Quiet(None)

OnStart(data) ==
    IF data.nesting = 0
    THEN [Quiet(Some(<<>>)) EXCEPT !.cur = data.name]
    ELSE Quiet(Some(<<>>))

(* Variant: a failure at nesting 0 is listed too. *)
OnFailAnyNesting(data) ==
    LET n == fail + 1
        indent == Repeat(" ", DigitCount(n) + 4)
    IN  [Quiet(Some(<<>>)) EXCEPT
           !.fail = n,
           !.output = output
               \o <<"  ", ToString(n), ") ", cur, "\n">>
               \o indent \o <<"  ", data.name, "\n">>
               \o indent \o <<data.stack, "\n\n">>]

OnFail(data) ==
    IF data.nesting > 0
    THEN LET n == fail + 1
             indent == Repeat(" ", DigitCount(n) + 4)
         IN  [Quiet(Some(<<>>)) EXCEPT
                !.fail = n,
                !.output = output
                    \o <<"  ", ToString(n), ") ", cur, "\n">>
                    \o indent \o <<"  ", data.name, "\n">>
                    \o indent \o <<data.stack, "\n\n">>]
    ELSE Quiet(Some(<<>>))

OnSummary(data) ==
    IF ~IsSome(data.file)
    THEN LET passing == getColoredStr("32",
                 <<"\n  ", ToString(data.counts.passed), " passing">>)
             time == getColoredStr("90",
                 <<"(", ToString(MathRound(data.duration)), "ms)">>)
             pending == IF data.counts.skipped # 0
                        THEN getColoredStr("36",
                            <<"\n  ", ToString(data.counts.skipped), " pending">>)
                        ELSE <<>>
             failing == IF data.counts.failed # 0
                        THEN getColoredStr("31",
                            <<"\n  ", ToString(data.counts.failed), " failing">>)
                        ELSE <<>>
         IN  Quiet(Some(<<" \n">> \o passing \o <<" ">> \o time \o pending
                        \o failing \o <<"\n\n">> \o output))
    ELSE Quiet(None)

Switch(event) ==
    CASE event.type = "test:complete" -> OnComplete(event)
      [] event.type = "test:start" -> OnStart(event)
      [] event.type = "test:fail" -> OnFail(event)
      [] event.type = "test:summary" -> OnSummary(event)
      [] OTHER -> Quiet(None)

FnOff ==
    /\ fnPc = "off"
    /\ fnIn = <<>>
    /\ fnOut = <<>>

ReporterInit ==
    /\ ExecOff
    /\ FnOff
    /\ MochaOff
    /\ gen = "created"
    /\ output = <<>>
    /\ cur = ""
    /\ pass = 0
    /\ fail = 0
    /\ consumed = <<>>
    /\ requests = 0
    /\ fragments = <<>>

(***************************************************************************)
(* The consumer calls next(): the generator starts, or resumes after its   *)
(* yield, and the for-await loop asks the source for the next event.       *)
(***************************************************************************)
Pull ==
    /\ gen \in {"created", "suspended"}
    /\ gen' = "awaiting"
    /\ requests' = requests + 1
    /\ UNCHANGED <<output, cur, pass, fail, consumed, fragments, fnVars, mochaVars, execVars>>

(***************************************************************************)
(* The source delivers an event: the loop body runs up to its yield, or,   *)
(* reaching none, goes round and asks for the next event.                  *)
(***************************************************************************)
Deliver ==
    /\ gen = "awaiting"
    /\ Len(consumed) < MaxEvents
    /\ \E event \in Events :
        LET r == Switch(event)
        IN  /\ consumed' = Append(consumed, event)
            /\ output' = r.output
            /\ cur' = r.cur
            /\ pass' = r.pass
            /\ fail' = r.fail
            /\ IF IsSome(r.yield)
               THEN /\ fragments' = Append(fragments,
                            [text |-> Get(r.yield), after |-> Len(consumed) + 1,
                             requests |-> requests])
                    /\ gen' = "suspended"
                    /\ requests' = requests
               ELSE /\ fragments' = fragments
                    /\ gen' = "awaiting"
                    /\ requests' = requests + 1
    /\ UNCHANGED <<fnVars, mochaVars, execVars>>

(***************************************************************************)
(* The source ends: the loop and the generator finish.                     *)
(***************************************************************************)
Finish ==
    /\ gen = "awaiting"
    /\ gen' = "done"
    /\ UNCHANGED <<output, cur, pass, fail, consumed, requests, fragments,
                   fnVars, mochaVars, execVars>>

ReporterNext == Pull \/ Deliver \/ Finish

SpecReporter == ReporterInit /\ [][ReporterNext]_vars

(***************************************************************************)
(* getPages of src/index.ts, lines 74-79: the mapping of the raw pages of  *)
(* a response.  `revisions` is optional: None when the page has none.      *)
(***************************************************************************)
Revision(model, text) == [contentmodel |-> model, content |-> text]

RawPage(id, revs) ==
    [pageid |-> id,
     title |-> IF id = 1 THEN "P" ELSE "Q",
     ns |-> IF id = 1 THEN 0 ELSE 10,
     revisions |-> revs]

RevisionChoices ==
    {None,
     Some(<<>>),
     Some(<<Revision("wikitext", "x")>>),
     Some(<<Revision("wikitext", "")>>),
     Some(<<Revision("css", "y")>>),
     Some(<<Revision("Wikitext", "x")>>),
     Some(<<Revision("css", "y"), Revision("wikitext", "x")>>),
     Some(<<Revision("wikitext", "x"), Revision("css", "y")>>)}

RawPages == {RawPage(id, revs) : id \in {1, 2}, revs \in RevisionChoices}

RawBatches == UNION {SeqsOfLen(RawPages, n) : n \in 0..MaxRaw}

(* Variant: the first revision that is wikitext, wherever it stands. *)
ContentAnyRevision(revisions) ==
    IF /\ IsSome(revisions)
       /\ \E k \in 1..Len(Get(revisions)) : Get(revisions)[k].contentmodel = "wikitext"
    THEN LET hits == {k \in 1..Len(Get(revisions)) :
                        Get(revisions)[k].contentmodel = "wikitext"}
         IN  Some(Get(revisions)[CHOOSE k \in hits : \A m \in hits : k <= m].content)
    ELSE None

(***************************************************************************)
(* Line 78, revisions?.[0]?.contentmodel === 'wikitext' &&                 *)
(* revisions[0].content: the content of the first revision, or false       *)
(* (None here).                                                            *)
(***************************************************************************)
Content(revisions) ==
    IF /\ IsSome(revisions)
       /\ Len(Get(revisions)) > 0
       /\ Get(revisions)[1].contentmodel = "wikitext"
    THEN Some(Get(revisions)[1].content)
    ELSE None

(***************************************************************************)
(* Lines 74-79: map, then filter out the pages whose content is false.     *)
(***************************************************************************)
SimplePages(pages) ==
    LET mapped == [k \in 1..Len(pages) |->
                      [pageid |-> pages[k].pageid, title |-> pages[k].title,
                       ns |-> pages[k].ns,
                       content |-> Content(pages[k].revisions)]]
        kept == SelectSeq(mapped, LAMBDA page : page.content # None)
    IN  [k \in 1..Len(kept) |->
            [pageid |-> kept[k].pageid, title |-> kept[k].title,
             ns |-> kept[k].ns, content |-> Get(kept[k].content)]]

GetPagesInit ==
    /\ ExecOff
    /\ MochaOff
    /\ ReporterOff
    /\ fnPc = "in"
    /\ fnIn \in RawBatches
    /\ fnOut = <<>>

MapPages ==
    /\ fnPc = "in"
    /\ fnPc' = "out"
    /\ fnOut' = SimplePages(fnIn)
    /\ UNCHANGED <<fnIn, mochaVars, repVars, execVars>>

SpecGetPages == GetPagesInit /\ [][MapPages]_vars

(***************************************************************************)
(* execute of src/index.ts, with the calls of getPages and reset it makes. *)
(*                                                                         *)
(* A site is its index in `apis`.  A continuation value is opaque to the   *)
(* program; here it carries the site whose response held it and a serial   *)
(* number.  The counter `i` only numbers the lines printed and is left     *)
(* out.                                                                    *)
(***************************************************************************)
apis == <<"zh.wikipedia.org", "en.wikipedia.org", "ja.wikipedia.org">>

Token(from, serial) == [site |-> from, n |-> serial]

(* A token left in `c` by a use of getPages before execute was called. *)
StaleToken == Token(0, 0)

(* The raw pages of the responses execute is given. *)
ExecBatches ==
    {<<>>,
     <<RawPage(1, Some(<<Revision("css", "y")>>))>>,
     <<RawPage(1, Some(<<Revision("wikitext", "x")>>))>>,
     <<RawPage(1, Some(<<Revision("wikitext", "x")>>)),
       RawPage(2, Some(<<Revision("wikitext", "x")>>))>>}

(***************************************************************************)
(* What a request comes to: fetch rejects, json() rejects, the body has no *)
(* `query` (a TypeError on line 74, after line 73 has stored the token),   *)
(* or the body has pages and maybe a `continue`.                           *)
(***************************************************************************)
Responses ==
    {[kind |-> k, continue |-> None, pages |-> <<>>] :
        k \in {"network", "decode", "noquery"}}
    \cup {[kind |-> "ok", continue |-> t, pages |-> b] :
            t \in {None, Some(Token(siteIx, attempt + 1))}, b \in ExecBatches}

(* The `parse` argument: a call returns after some time, or throws. *)
ParseOutcomes ==
    {[kind |-> "return", duration |-> d] : d \in {1, 2}}
    \cup {[kind |-> "throw", duration |-> 0]}

(* Variant: reset leaves the token as it is. *)
resetKeeps == cont

(* Lines 83-85. *)
reset == None

(* Variant: the error is thrown on and ends the for-of loop. *)
Rethrow == Len(apis) + 1

(* Lines 122-124: the catch logs, and the for-of loop goes on. *)
NextSite == siteIx + 1

Catch(kind) ==
    /\ caught' = kind
    /\ siteIx' = NextSite
    /\ epc' = "site"

RECURSIVE Total(_)
Total(entries) ==
    IF entries = <<>> THEN 0
    ELSE Head(entries).failed + Total(Tail(entries))

ExecInit ==
    /\ FnOff
    /\ MochaOff
    /\ ReporterOff
    /\ cont \in {None, Some(StaleToken)}
    /\ epc = "site"
    /\ siteIx = 1
    /\ retry \in 1..MaxRetry
    /\ attempt = 0
    /\ failed = 0
    /\ worst = None
    /\ failures = <<>>
    /\ batch = <<>>
    /\ inflight = 0
    /\ sent = NoRequest
    /\ lastContinue = None
    /\ visited = <<>>
    /\ caught = "none"
    /\ threw = 0
    /\ raised = None
    /\ identity \in BOOLEAN

(* Lines 94-101: the head of one round of the for-of loop. *)
EnterSite ==
    /\ epc = "site"
    /\ siteIx <= Len(apis)
    /\ worst' = None
    /\ cont' = reset
    /\ failed' = 0
    /\ attempt' = 0
    /\ batch' = <<>>
    /\ lastContinue' = None
    /\ epc' = "fetch"
    /\ UNCHANGED <<siteIx, retry, failures, inflight, sent, visited, caught,
                   threw, raised, identity, fnVars, mochaVars, repVars>>

(***************************************************************************)
(* Line 102 and lines 51-72: getPages is called; it merges `c` into the    *)
(* query and sends the request, unless execSync throws while the headers   *)
(* are built.                                                              *)
(***************************************************************************)
CallGetPages ==
    /\ epc = "fetch"
    /\ attempt < retry
    /\ visited' = IF attempt = 0
                  THEN Append(visited, [site |-> siteIx, token |-> cont])
                  ELSE visited
    /\ \/ /\ identity
          /\ sent' = [site |-> siteIx, token |-> cont]
          /\ inflight' = inflight + 1
          /\ epc' = "await"
          /\ UNCHANGED <<siteIx, caught>>
       \/ /\ ~identity
          /\ Catch("execSync")
          /\ UNCHANGED <<sent, inflight>>
    /\ UNCHANGED <<cont, retry, attempt, failed, worst, failures, batch,
                   lastContinue, threw, raised, identity, fnVars, mochaVars, repVars>>

(* Lines 66-79: the response arrives and getPages returns or throws. *)
Response ==
    /\ epc = "await"
    /\ inflight' = inflight - 1
    /\ \E r \in Responses :
        \/ /\ r.kind \in {"network", "decode"}
           /\ Catch(r.kind)
           /\ UNCHANGED <<cont, lastContinue, batch>>
        \/ /\ r.kind = "noquery"
           /\ cont' = r.continue
           /\ lastContinue' = Some(r.continue)
           /\ Catch("TypeError")
           /\ UNCHANGED batch
        \/ /\ r.kind = "ok"
           /\ cont' = r.continue
           /\ lastContinue' = Some(r.continue)
           /\ batch' = SimplePages(r.pages)
           /\ epc' = "pages"
           /\ UNCHANGED <<siteIx, caught>>
    /\ UNCHANGED <<retry, attempt, failed, worst, failures, sent, visited,
                   threw, raised, identity, fnVars, mochaVars, repVars>>

(* Lines 103-115: one round of the inner for-of loop. *)
ParsePage ==
    /\ epc = "pages"
    /\ batch # <<>>
    /\ \E o \in ParseOutcomes :
        IF o.kind = "throw"
        THEN /\ failed' = failed + 1
             /\ threw' = threw + 1
             /\ UNCHANGED worst
        ELSE /\ worst' = IF worst = None \/ o.duration > Get(worst).duration
                         THEN Some([title |-> Head(batch).title,
                                    duration |-> o.duration])
                         ELSE worst
             /\ UNCHANGED <<failed, threw>>
    /\ batch' = Tail(batch)
    /\ UNCHANGED <<cont, epc, siteIx, retry, attempt, failures, inflight, sent,
                   lastContinue, visited, caught, raised, identity, fnVars, mochaVars,
                   repVars>>

(* Line 101: the batch is done, j++. *)
BatchDone ==
    /\ epc = "pages"
    /\ batch = <<>>
    /\ attempt' = attempt + 1
    /\ epc' = "fetch"
    /\ UNCHANGED <<cont, siteIx, retry, failed, worst, failures, batch, inflight,
                   sent, lastContinue, visited, caught, threw, raised, identity, fnVars,
                   mochaVars, repVars>>

(***************************************************************************)
(* Lines 118-121, after the retry loop: the count is stored, and the line  *)
(* that prints the slowest page throws a TypeError when there is none.     *)
(***************************************************************************)
EndSite ==
    /\ epc = "fetch"
    /\ attempt >= retry
    /\ failures' = IF failed # 0
                   THEN Append(failures, [site |-> siteIx, failed |-> failed])
                   ELSE failures
    /\ IF worst = None
       THEN Catch("TypeError")
       ELSE /\ siteIx' = siteIx + 1
            /\ epc' = "site"
            /\ UNCHANGED caught
    /\ UNCHANGED <<cont, retry, attempt, failed, worst, batch, inflight, sent,
                   lastContinue, visited, threw, raised, identity, fnVars, mochaVars,
                   repVars>>

(* Lines 126-133: after the last site. *)
Finish_execute ==
    /\ epc = "site"
    /\ siteIx > Len(apis)
    /\ raised' = IF Len(failures) > 0 THEN Some(Total(failures)) ELSE None
    /\ epc' = "done"
    /\ UNCHANGED <<cont, siteIx, retry, attempt, failed, worst, failures, batch,
                   inflight, sent, lastContinue, visited, caught, threw,
                   identity, fnVars, mochaVars, repVars>>

ExecNext ==
    EnterSite \/ CallGetPages \/ Response \/ ParsePage \/ BatchDone
    \/ EndSite \/ Finish_execute

SpecExecute == ExecInit /\ [][ExecNext]_vars

(***************************************************************************)
(* What the claims about the reconciler speak of.                          *)
(***************************************************************************)
Range(q) == {q[k] : k \in 1..Len(q)}

ThisRun == SelectSeq(report, LAMBDA e : e.run = run)

Passed(e) == e.thrown = "none"

Mismatched(e) == e.at = "compare"

Crashed(e) == e.thrown \notin {"none", "AssertionError"}

CrashedTests == {e.test : e \in {x \in Range(ThisRun) : Crashed(x)}}

RECURSIVE Without(_, _)
Without(n, gone) ==
    IF n = 0 THEN <<>>
    ELSE Without(n - 1, gone) \o (IF n \in gone THEN <<>> ELSE <<n>>)

(***************************************************************************)
(* C1.  When the after hook has run, every registered case was evaluated   *)
(* once, and the corpus written is the loaded corpus without exactly the   *)
(* cases whose evaluation threw something other than an AssertionError:    *)
(* every other case is there, in its original relative order.              *)
(***************************************************************************)
C1_PersistedCorpus ==
    pc = "done" =>
        LET kept == Without(Len(loaded), CrashedTests)
        IN  /\ Len(ThisRun) = Len(its)
            /\ \A k \in 1..Len(its) : ThisRun[k].test = its[k].test
            /\ IsSome(file)
            /\ Len(Get(file)) = Len(kept)
            /\ \A k \in 1..Len(kept) :
                /\ Get(file)[k].desc = loaded[kept[k]].desc
                /\ Get(file)[k].wikitext = loaded[kept[k]].wikitext
                /\ Get(file)[k] = heap[kept[k]]

C1_Witness ==
    /\ pc = "done"
    /\ run = 1
    /\ Len(loaded) = 2
    /\ CrashedTests = {1}
    /\ \E e \in Range(ThisRun) : e.test = 2 /\ Mismatched(e)
    /\ Len(Get(file)) = 1
    /\ Get(file)[1].desc = loaded[2].desc

(***************************************************************************)
(* C2.  For every case whose parser call returned, with results an array:  *)
(* an AssertionError is thrown by the comparison exactly when the fresh    *)
(* token sequence differs from the stored one (no stored case of that      *)
(* description, or one without parsed, differs from every sequence), and   *)
(* then the case stays in the corpus; and every case that is still in the  *)
(* corpus after its parser call returned holds the parser's output in its  *)
(* parsed field.                                                           *)
(***************************************************************************)
TokensDiffer(e) ==
    LET stored == Find(results.items, e.desc)
    IN  \/ ~IsSome(stored)
        \/ ~IsSome(Get(stored).parsed)
        \/ JsSplit(Get(Get(stored).parsed)) # JsSplit(e.outcome.value)

\* C2: a differing token sequence is an AssertionError of the comparison and
\* the case stays; a retained case whose parser call returned holds its output.
C2_MismatchRetained ==
    \A e \in Range(ThisRun) :
        /\ (e.outcome.kind = "return" /\ results.isArray) =>
              /\ TokensDiffer(e) <=> (Mismatched(e) /\ e.thrown = "AssertionError")
              /\ TokensDiffer(e) => e.test \in Range(tests)
        /\ (e.outcome.kind = "return" /\ e.test \in Range(tests)) =>
              heap[e.test].parsed = Some(e.outcome.value)

C2_Witness ==
    \E e \in Range(ThisRun) :
        /\ run = 1
        /\ Mismatched(e)
        /\ Find(results.items, e.desc) = None
        /\ e.test \in Range(tests)
        /\ loaded[e.test].parsed # heap[e.test].parsed
        /\ heap[e.test].parsed = Some(e.outcome.value)

(***************************************************************************)
(* C3.  Whenever evaluating a case throws an error that is not an          *)
(* expectation mismatch (it does not come from the comparison), the case   *)
(* is removed from the array and the error is re-thrown with the wikitext  *)
(* as its cause; and a case passes only if the parser returned and the     *)
(* token sequences were equal.                                             *)
(***************************************************************************)
C3_Original ==
    \A e \in Range(ThisRun) :
        /\ (IsError(e.thrown) /\ ~Mismatched(e)) =>
              /\ e.test \notin Range(tests)
              /\ e.cause = Some(e.wikitext)
        /\ Passed(e) => (e.outcome.kind = "return" /\ ~TokensDiffer(e))

(***************************************************************************)
(* C4.  A corpus entry with no wikitext field is never registered, and it  *)
(* stays in the array with every field as loaded, up to and including the  *)
(* write of the file.                                                      *)
(***************************************************************************)
Disabled == {t \in 1..Len(loaded) : loaded[t].wikitext = None}

\* C4: an entry without wikitext is not registered, keeps every field and
\* stays in the array and in the written file.
C4_DisabledUntouched ==
    \A t \in Disabled :
        /\ \A k \in 1..Len(its) : its[k].test # t
        /\ heap[t] = loaded[t]
        /\ t \in Range(tests)
        /\ pc = "done" => \E k \in 1..Len(Get(file)) :
                            /\ Get(file)[k] = loaded[t]
                            /\ tests[k] = t

C4_Witness ==
    /\ pc = "done"
    /\ Len(loaded) = 2
    /\ 2 \in Disabled
    /\ loaded[2].title = Some("old")
    /\ CrashedTests = {1}
    /\ Get(file) = <<loaded[2]>>

(***************************************************************************)
(* C5.  In the second run, started on the corpus the first run wrote and   *)
(* given that corpus as results, no comparison fails, provided the         *)
(* descriptions of the corpus are unique (the parser is deterministic).    *)
(***************************************************************************)
UniqueDescs(corpus) ==
    \A j, k \in 1..Len(corpus) : corpus[j].desc = corpus[k].desc => j = k

\* C5: with unique descriptions no comparison fails in the second run.
C5_Idempotent ==
    (run = 2 /\ UniqueDescs(loaded)) =>
        \A e \in Range(ThisRun) : ~Mismatched(e)

C5_Witness ==
    /\ run = 2
    /\ pc = "done"
    /\ UniqueDescs(loaded)
    /\ \E e1, e2 \in Range(report) :
        /\ e1.run = 1 /\ Mismatched(e1)
        /\ e2.run = 2 /\ Passed(e2)
        /\ e1.desc = e2.desc

(***************************************************************************)
(* C6.  The file is written once per run, by the after hook, when every    *)
(* registered case has finished; until then it is as it was loaded.        *)
(***************************************************************************)
C6_WrittenOnce ==
    /\ pc \in {"load", "before", "its"} => (writes = 0 /\ file = Some(loaded))
    /\ pc = "done" =>
          /\ writes = 1
          /\ next = Len(its) + 1
          /\ Len(ThisRun) = Len(its)

C6_Witness ==
    /\ pc = "done"
    /\ writes = 1
    /\ Len(ThisRun) = 2
    /\ \E e \in Range(ThisRun) : Crashed(e)
    /\ \E e \in Range(ThisRun) : Mismatched(e)

(***************************************************************************)
(* C7.  The tokenizer cuts a parsed string exactly at the offsets that are  *)
(* right after a "</>" marker and not the end of the string, or right      *)
(* before a "<" followed by a letter and not the start of the string; an   *)
(* offset meeting both conditions is one cut, and no token is empty.       *)
(* C7_Original states it with "letter" as written; C7_Tokenizer with what  *)
(* the expression tests, a word character (letter, digit or underscore).   *)
(***************************************************************************)
AfterMarker(s, q) ==
    q >= 3 /\ q < Len(s) /\ SubStr(s, q - 3, q) = <<"<", "/", ">">>

BeforeTag(s, q, chars) ==
    q > 0 /\ q + 2 <= Len(s) /\ s[q + 1] = "<" /\ s[q + 2] \in chars

CutsStated(s, chars) ==
    {q \in 0..Len(s) : AfterMarker(s, q) \/ BeforeTag(s, q, chars)}

Min(S) == CHOOSE x \in S : \A y \in S : x <= y

RECURSIVE CutAt(_, _, _)
CutAt(s, p, cuts) ==
    LET later == {q \in cuts : q > p}
    IN  IF later = {} THEN <<SubStr(s, p, Len(s))>>
        ELSE <<SubStr(s, p, Min(later))>> \o CutAt(s, Min(later), cuts)

TokensStated(s, chars) ==
    /\ IsSome(fnOut[1])
    /\ Get(fnOut[1]) = CutAt(s, 0, CutsStated(s, chars))
    /\ s # <<>> => \A k \in 1..Len(Get(fnOut[1])) : Get(fnOut[1])[k] # <<>>

\* C7 as stated: the cuts are after "</>" or before "<" and a letter.
C7_Original == fnPc = "out" => TokensStated(fnIn[1], {"a"})

\* C7 as amended: the cuts are after "</>" or before "<" and a word character.
C7_Tokenizer == fnPc = "out" => TokensStated(fnIn[1], {"a", "1"})

C7_Witness ==
    /\ fnPc = "out"
    /\ \E q \in 1..Len(fnIn[1]) :
           AfterMarker(fnIn[1], q) /\ BeforeTag(fnIn[1], q, {"a", "1"})
    /\ Len(Get(fnOut[1])) = 2

(***************************************************************************)
(* C8.  The token-sequence comparison and the raw string comparison.       *)
(* C8_Original states the claim: some two parsed strings are unequal as    *)
(* strings and have equal token sequences.  C8_SameAsRaw states what holds: *)
(* two parsed strings have equal token sequences exactly when they are     *)
(* equal strings, so the comparison passes no pair a raw comparison fails. *)
(***************************************************************************)
C8_Original ==
    fnPc = "out" => \E s, t \in StringsUpTo(CmpAlphabet, MaxCmpLen) :
        /\ s # t
        /\ DeepStrictEqual(split(TestOf(s)), split(TestOf(t)))

\* C8 as amended: equal token sequences exactly when equal strings.
C8_SameAsRaw ==
    fnPc = "out" =>
        (DeepStrictEqual(fnOut[1], fnOut[2]) <=> fnIn[1] = fnIn[2])

C8_Witness ==
    /\ fnPc = "out"
    /\ fnIn[1] # fnIn[2]
    /\ Len(Get(fnOut[1])) = 2
    /\ Len(Get(fnOut[2])) = 2
    /\ Get(fnOut[1])[2] = Get(fnOut[2])[2]

(***************************************************************************)
(* C9.  One fragment per consumed event: fragment k is yielded after event *)
(* k is consumed and before event k + 1 is asked for.  C9_Original states  *)
(* it for every event.  C9_OnePerYieldingEvent states it for the events    *)
(* that reach a yield: test:start, test:complete, test:fail, and a         *)
(* test:summary without a file; a test:summary with a file and an event of *)
(* any other type yield nothing, and the next event is asked for at once.  *)
(***************************************************************************)
C9_Original ==
    /\ gen \in {"suspended", "done"} => Len(fragments) = Len(consumed)
    /\ \A k \in 1..Len(fragments) :
        fragments[k].after = k /\ fragments[k].requests = k

ReachesYield(event) ==
    \/ event.type \in {"test:start", "test:complete", "test:fail"}
    \/ event.type = "test:summary" /\ event.file = None

RECURSIVE Yielding(_)
Yielding(n) ==
    IF n = 0 THEN <<>>
    ELSE Yielding(n - 1) \o (IF ReachesYield(consumed[n]) THEN <<n>> ELSE <<>>)

\* C9 as amended: one fragment per event that reaches a yield, yielded after
\* that event is consumed and before the next one is asked for.
C9_OnePerYieldingEvent ==
    LET ys == Yielding(Len(consumed))
    IN  /\ Len(fragments) = Len(ys)
        /\ \A k \in 1..Len(ys) :
            fragments[k].after = ys[k] /\ fragments[k].requests = ys[k]
        /\ gen = "suspended" =>
            (requests = Len(consumed) /\ ReachesYield(consumed[Len(consumed)]))
        /\ gen = "awaiting" => requests = Len(consumed) + 1

C9_Witness ==
    /\ gen = "suspended"
    /\ Len(consumed) = 3
    /\ consumed[2].type = "test:summary"
    /\ consumed[2].file # None
    /\ Len(fragments) = 2
    /\ fragments[2].after = 3

(***************************************************************************)
(* C10.  Every test:complete event with nesting > 0 and passed = false,    *)
(* wherever it comes in the stream, yields exactly the red "!" glyph.      *)
(***************************************************************************)
C10_Original ==
    \A k \in 1..Len(consumed) :
        (/\ consumed[k].type = "test:complete"
         /\ consumed[k].nesting > 0
         /\ ~consumed[k].passed) =>
            \E j \in 1..Len(fragments) :
                /\ fragments[j].after = k
                /\ fragments[j].text = <<"\\x1b[", "31", "m", "!", "\\x1b[0m">>

(***************************************************************************)
(* What the claims about the reporter speak of: the fragment of an event,  *)
(* and the failure-detail block, the top-level name and the counts as the  *)
(* events consumed so far determine them.                                  *)
(***************************************************************************)
FragmentsOf(k) == {fragments[j].text : j \in {i \in 1..Len(fragments) : fragments[i].after = k}}

HasPrefix(text) == Len(text) > 0 /\ text[1] = "\n\n  "

NestedFail(event) == event.type = "test:fail" /\ event.nesting > 0

TopStart(event) == event.type = "test:start" /\ event.nesting = 0

NestedComplete(event) == event.type = "test:complete" /\ event.nesting > 0

RECURSIVE TopName(_)
TopName(n) ==
    IF n = 0 THEN ""
    ELSE IF TopStart(consumed[n]) THEN consumed[n].name
    ELSE TopName(n - 1)

FailCount(n) == Cardinality({k \in 1..n : NestedFail(consumed[k])})

Spaces(n) == [k \in 1..n |-> " "]

Entry(number, top, event) ==
    <<"  ", ToString(number), ") ", top, "\n">>
    \o Spaces(IF number < 10 THEN 5 ELSE 6) \o <<"  ", event.name, "\n">>
    \o Spaces(IF number < 10 THEN 5 ELSE 6) \o <<event.stack, "\n\n">>

RECURSIVE Block(_)
Block(n) ==
    IF n = 0 THEN <<>>
    ELSE Block(n - 1)
         \o (IF NestedFail(consumed[n])
             THEN Entry(FailCount(n), TopName(n), consumed[n])
             ELSE <<>>)

Contains(text, part) ==
    \E k \in 0..(Len(text) - Len(part)) : SubSeq(text, k + 1, k + Len(part)) = part

EndsWith(text, part) ==
    /\ Len(text) >= Len(part)
    /\ SubSeq(text, Len(text) - Len(part) + 1, Len(text)) = part

(***************************************************************************)
(* C11.  In a stream with a passing test:complete at nesting > 0, the      *)
(* blank-line + indent prefix comes with the fragment of the first such    *)
(* event and with no other fragment.                                       *)
(***************************************************************************)
FirstPassing(k) ==
    /\ NestedComplete(consumed[k]) /\ consumed[k].passed
    /\ \A i \in 1..(k - 1) : ~(NestedComplete(consumed[i]) /\ consumed[i].passed)

C11_Original ==
    \A j \in 1..Len(fragments) :
        HasPrefix(fragments[j].text) <=> FirstPassing(fragments[j].after)

(***************************************************************************)
(* C12.  A test:summary event yields a fragment exactly when it has no     *)
(* file; the fragment holds the passed count, the duration rounded to      *)
(* whole milliseconds, a pending segment exactly when skipped is not 0, a  *)
(* failing segment exactly when failed is not 0, and ends with the         *)
(* failure-detail block of all the test:fail events before it.             *)
(***************************************************************************)
Rounded(tenths) == IF tenths % 10 >= 5 THEN tenths \div 10 + 1 ELSE tenths \div 10

SummaryText(text, event, k) ==
    /\ Contains(text, <<"\n  ", ToString(event.counts.passed), " passing">>)
    /\ Contains(text, <<"(", ToString(Rounded(event.duration)), "ms)">>)
    /\ (event.counts.skipped # 0) <=>
          Contains(text, <<"\n  ", ToString(event.counts.skipped), " pending">>)
    /\ (event.counts.skipped = 0) => ~Contains(text, <<" pending">>)
    /\ (event.counts.failed # 0) <=>
          Contains(text, <<"\n  ", ToString(event.counts.failed), " failing">>)
    /\ (event.counts.failed = 0) => ~Contains(text, <<" failing">>)
    /\ EndsWith(text, <<"\n\n">> \o Block(k - 1))

C12_Summary ==
    \A k \in 1..Len(consumed) :
        consumed[k].type = "test:summary" =>
            /\ (FragmentsOf(k) # {}) <=> (consumed[k].file = None)
            /\ \A text \in FragmentsOf(k) : SummaryText(text, consumed[k], k)

C12_Witness ==
    /\ Len(consumed) = 3
    /\ NestedFail(consumed[2])
    /\ consumed[3].type = "test:summary"
    /\ consumed[3].counts.skipped = 1
    /\ consumed[3].counts.failed = 0
    /\ \E text \in FragmentsOf(3) :
        /\ Contains(text, <<"(", "13", "ms)">>)
        /\ Contains(text, <<"  ", "1", ") ">>)

(***************************************************************************)
(* C19.  The failure-detail block holds one entry per test:fail event at   *)
(* nesting > 0, in arrival order, numbered 1, 2, 3, ..., each naming the   *)
(* top-level test of the latest test:start at nesting 0 before it; every   *)
(* test:fail and test:start yields the empty fragment; a test:fail at      *)
(* nesting 0 and a test:start at nesting > 0 leave output, cur, fail and   *)
(* pass as they were.                                                      *)
(***************************************************************************)
C19_FailureBlock ==
    LET n == Len(consumed)
    IN  /\ output = Block(n)
        /\ cur = TopName(n)
        /\ fail = FailCount(n)
        /\ pass = Cardinality({k \in 1..n : NestedComplete(consumed[k])})
        /\ \A k \in 1..n :
            consumed[k].type \in {"test:fail", "test:start"} =>
                FragmentsOf(k) = {<<>>}

C19_Witness ==
    /\ Len(consumed) = 3
    /\ TopStart(consumed[1]) /\ consumed[1].name = "B"
    /\ NestedFail(consumed[2])
    /\ NestedFail(consumed[3])
    /\ fail = 2
    /\ Contains(output, <<"  ", "2", ") ", "B", "\n">>)
    /\ Contains(output, <<"  ", "1", ") ", "B", "\n">>)

(***************************************************************************)
(* C17.  The cases are evaluated from the last corpus index to the first,  *)
(* and whatever crashed and was removed before, the case registered for    *)
(* index i is still the element at index i when it is evaluated: so each   *)
(* removal took the crashed case itself, and no registered case is         *)
(* skipped.                                                                *)
(***************************************************************************)
Enabled == {t \in 1..Len(loaded) :
                loaded[t].wikitext # None /\ loaded[t].wikitext # Some("")}

C17_DescendingStable ==
    pc # "load" =>
        /\ \A k, l \in 1..Len(its) : k < l => its[k].i > its[l].i
        /\ {its[k].test : k \in 1..Len(its)} = Enabled
        /\ \A k \in next..Len(its) :
            /\ its[k].i < Len(tests)
            /\ tests[its[k].i + 1] = its[k].test
        /\ Len(ThisRun) = next - 1
        /\ \A k \in 1..Len(ThisRun) : ThisRun[k].test = its[k].test
        /\ tests = Without(Len(loaded), CrashedTests)

C17_Witness ==
    /\ pc = "its"
    /\ Len(its) = 2
    /\ next = 2
    /\ CrashedTests = {2}
    /\ tests = <<1>>
    /\ its[2].i = 0

(***************************************************************************)
(* C18.  html, print, render and title are deleted from a case before the  *)
(* parser is called on it: a case that was evaluated has none of them,     *)
(* even when the parser threw, and a case that was evaluated and retained  *)
(* is written to the file without them.                                    *)
(***************************************************************************)
NoStaleFields(t) ==
    /\ t.html = None
    /\ t.print = None
    /\ t.render = None
    /\ t.title = None

C18_StaleFieldsRemoved ==
    /\ \A e \in Range(ThisRun) : NoStaleFields(heap[e.test])
    /\ pc = "done" =>
        \A k \in 1..Len(Get(file)) :
            (\E e \in Range(ThisRun) : e.test = tests[k]) =>
                NoStaleFields(Get(file)[k])

C18_Witness ==
    /\ pc = "done"
    /\ run = 1
    /\ Len(loaded) = 2
    /\ loaded[1].title = Some("old")
    /\ loaded[2].title = Some("old")
    /\ \E e \in Range(ThisRun) : e.test = 1 /\ Mismatched(e)
    /\ \E e \in Range(ThisRun) : e.test = 2 /\ Passed(e)
    /\ Len(Get(file)) = 2
    /\ NoStaleFields(Get(file)[1])
    /\ NoStaleFields(Get(file)[2])

(***************************************************************************)
(* C20.  An entry is registered and evaluated exactly when its wikitext is *)
(* a non-empty string: an entry whose wikitext is the empty string is      *)
(* treated as one without wikitext, never parsed, never compared and       *)
(* written as it was loaded.                                               *)
(***************************************************************************)
EmptyWikitext == {t \in 1..Len(loaded) : loaded[t].wikitext = Some("")}

C20_EmptyWikitextDisabled ==
    /\ pc # "load" =>
        \A t \in 1..Len(loaded) :
            (\E k \in 1..Len(its) : its[k].test = t)
                <=> (t \notin EmptyWikitext /\ t \notin Disabled)
    /\ pc = "done" =>
        \A t \in Enabled : \E e \in Range(ThisRun) : e.test = t
    /\ \A e \in parseLog : e.wikitext # ""
    /\ \A t \in EmptyWikitext :
        /\ \A e \in Range(ThisRun) : e.test # t
        /\ heap[t] = loaded[t]
        /\ t \in Range(tests)
        /\ pc = "done" => \E k \in 1..Len(Get(file)) :
                            /\ Get(file)[k] = loaded[t]
                            /\ tests[k] = t

C20_Witness ==
    /\ pc = "done"
    /\ Len(loaded) = 2
    /\ 1 \in EmptyWikitext
    /\ loaded[1].html = Some("old")
    /\ CrashedTests = {2}
    /\ Get(file) = <<loaded[1]>>

(***************************************************************************)
(* C13.  getPages returns, in response order, exactly the raw pages with   *)
(* at least one revision whose content model is "wikitext", mapped to      *)
(* {pageid, title, ns, content}; the others are dropped.                   *)
(***************************************************************************)
HasWikitext(page) ==
    /\ page.revisions # None
    /\ \E k \in 1..Len(Get(page.revisions)) :
        Get(page.revisions)[k].contentmodel = "wikitext"

FirstIsWikitext(page) ==
    /\ page.revisions # None
    /\ Get(page.revisions) # <<>>
    /\ Head(Get(page.revisions)).contentmodel = "wikitext"

RECURSIVE Positions(_, _)
Positions(n, keep) ==
    IF n = 0 THEN <<>>
    ELSE Positions(n - 1, keep) \o (IF n \in keep THEN <<n>> ELSE <<>>)

ReturnsPagesAt(at) ==
    /\ Len(fnOut) = Len(at)
    /\ \A k \in 1..Len(at) :
        /\ fnOut[k].pageid = fnIn[at[k]].pageid
        /\ fnOut[k].title = fnIn[at[k]].title
        /\ fnOut[k].ns = fnIn[at[k]].ns
        /\ DOMAIN fnOut[k] = {"pageid", "title", "ns", "content"}

C13_Original ==
    fnPc = "out" => ReturnsPagesAt(Positions(Len(fnIn),
                            {k \in 1..Len(fnIn) : HasWikitext(fnIn[k])}))

\* C13 as amended: the pages kept are those whose first revision is wikitext,
\* and the content is that revision's.
C13_FirstRevision ==
    fnPc = "out" =>
        LET at == Positions(Len(fnIn),
                            {k \in 1..Len(fnIn) : FirstIsWikitext(fnIn[k])})
        IN  /\ ReturnsPagesAt(at)
            /\ \A k \in 1..Len(at) :
                fnOut[k].content = Head(Get(fnIn[at[k]].revisions)).content

C13_Witness ==
    /\ fnPc = "out"
    /\ Len(fnIn) = 2
    /\ fnIn[1].revisions = Some(<<Revision("css", "y"), Revision("wikitext", "x")>>)
    /\ fnIn[2].revisions = Some(<<Revision("wikitext", "x"), Revision("css", "y")>>)
    /\ Len(fnOut) = 1
    /\ fnOut[1].pageid = fnIn[2].pageid
    /\ fnOut[1].content = "x"

(***************************************************************************)
(* C14.  execute throws the aggregate error exactly when some parse call   *)
(* threw during the run, and the total in it is the number of parse calls  *)
(* that threw at all the sites; otherwise it returns normally.             *)
(***************************************************************************)
C14_Original ==
    epc = "done" =>
        /\ (raised # None) <=> (threw > 0)
        /\ raised # None => Get(raised) = threw

(***************************************************************************)
(* C15.  A failure at one site never ends the run: every site of the list  *)
(* is visited in order, with the token reset and a first getPages call     *)
(* made, whatever happened at the sites before; and whatever a parse call  *)
(* does, the rest of its batch is parsed.                                  *)
(***************************************************************************)
C15_Visits ==
    /\ \A k \in 1..Len(visited) : visited[k] = [site |-> k, token |-> None]
    /\ Len(visited) =
        IF epc = "done" THEN Len(apis)
        ELSE IF epc = "site" \/ (epc = "fetch" /\ attempt = 0) THEN siteIx - 1
        ELSE siteIx

C15_BatchStep ==
    /\ (epc = "pages" /\ batch # <<>>) =>
            (epc' = "pages" /\ batch' = Tail(batch) /\ siteIx' = siteIx)
    /\ (epc = "pages" /\ epc' # "pages") =>
            (batch = <<>> /\ epc' = "fetch" /\ siteIx' = siteIx)

C15_NoAbort == []C15_Visits /\ [][C15_BatchStep]_vars

C15_Witness ==
    /\ siteIx = 2
    /\ caught = "network"
    /\ epc = "pages"
    /\ batch = <<>>
    /\ attempt = 0
    /\ failed = 1
    /\ worst # None
    /\ Get(worst).title = "Q"
    /\ Len(visited) = 2

(***************************************************************************)
(* C16.  At most one fetch is in flight; the token merged into a request   *)
(* is absent for the first request to a site, and otherwise is the         *)
(* `continue` (or its absence) of the response before it from that site;   *)
(* a token never goes to a site other than the one it came from.           *)
(***************************************************************************)
C16_TokenDiscipline ==
    /\ inflight \in {0, 1}
    /\ (inflight = 1) <=> (epc = "await")
    /\ epc = "await" =>
        /\ sent.site = siteIx
        /\ attempt = 0 => sent.token = None
        /\ attempt > 0 => lastContinue = Some(sent.token)
        /\ sent.token # None => Get(sent.token).site = sent.site

C16_Witness ==
    /\ epc = "await"
    /\ siteIx = 2
    /\ attempt = 1
    /\ sent = [site |-> 2, token |-> Some(Token(2, 1))]
    /\ visited = <<[site |-> 1, token |-> None], [site |-> 2, token |-> None]>>

====
